---- MODULE Spec2Model ----
(***************************************************************************)
(* The users chain of Personal-financial-tracker: HTTP handlers and the    *)
(* gateway service and gRPC storage of API-Gateway, the gRPC server, the   *)
(* service and the psql storage of UsersManager, and the users table.      *)
(*                                                                         *)
(* A Go error is the sequence of what fmt.Errorf("%s: %w", op, err) puts   *)
(* in front of a root error: <<op_n, ..., op_1, root>>.  nil is <<>>.      *)
(***************************************************************************)
EXTENDS Integers, Sequences, FiniteSets, Bags, TLC

VARIABLES table, req, issued, main

vars == <<table, req, issued, main>>

(***************************************************************************)
(* Bounds of the model.                                                    *)
(***************************************************************************)
\* requests issued in one behaviour, when they are served one after the other
MaxRequests == 3

\* requests issued in one behaviour, when they are served side by side
MaxConcurrent == 2

\* the workers that serve requests side by side (one goroutine per request)
Workers == {1, 2}

\* the worker that serves the requests that come one after the other
Serial == {1}

(***************************************************************************)
(* Identifiers and users.                                                  *)
(***************************************************************************)
NilUUID == "uuid.Nil"

UUIDs == {"U1", "U2"}

\* uuid.UUID.String()
UUIDString(u) ==
    CASE u = "U1" -> "11111111-1111-1111-1111-111111111111"
      [] u = "U2" -> "22222222-2222-2222-2222-222222222222"
      [] OTHER    -> "00000000-0000-0000-0000-000000000000"

\* uuid.Parse: the identifier a text denotes, or an error
ParseUUID(s) ==
    IF \E u \in UUIDs \cup {NilUUID} : UUIDString(u) = s
    THEN [ok |-> TRUE, uuid |-> CHOOSE u \in UUIDs \cup {NilUUID} : UUIDString(u) = s]
    ELSE [ok |-> FALSE, uuid |-> NilUUID]

\* models.User
User(id, login, password, role) ==
    [Id |-> id, Login |-> login, Password |-> password, Role |-> role]

\* models.User{}
ZeroUser == User(NilUUID, "", "", "")

\* the users that requests carry and rows hold
UserPool ==
    { User("U1", "ann", "pw1", "admin"),
      User("U1", "bob", "pw2", "user"),
      User("U2", "ann", "pw1", "admin") }

(***************************************************************************)
(* Errors.                                                                 *)
(***************************************************************************)
NoErr == <<>>

\* fmt.Errorf("%s: %w", op, err)
Wrap(op, err) == <<op>> \o err

\* errors.Is(err, target): some error of err's chain is target
Is(err, target) ==
    \E i \in 1..Len(err) : SubSeq(err, i, Len(err)) = target

\* context.Canceled, what ctx.Err() is once the context is cancelled
ContextCanceled == <<"context.Canceled">>

\* database/sql and lib/pq errors
SqlErrNoRows == <<"sql.ErrNoRows">>
SqlErrConnDone == <<"sql.ErrConnDone">>
\* the error of database/sql for a statement on a handle that was closed
SqlErrDBClosed == <<"sql: database is closed">>
PqError(code) == <<"pq.Error", code>>
PqUniqueViolation == "23505"
PqAdminShutdown == "57P01"

\* usersmanager/internal/storage
UMStorageErrNotFound == <<"usersmanager/storage.ErrNotFound">>
UMStorageErrAlreadyExists == <<"usersmanager/storage.ErrAlreadyExists">>

\* usersmanager/internal/service
UMServiceErrNotFound == <<"usersmanager/service.ErrNotFound">>
UMServiceErrAlreadyExists == <<"usersmanager/service.ErrAlreadyExists">>
UMServiceErrInvalidArgument == <<"usersmanager/service.ErrInvalidArgument">>

\* apigateway/internal/storage
GWStorageErrNotFound == <<"apigateway/storage.ErrNotFound">>
GWStorageErrAlreadyExists == <<"apigateway/storage.ErrAlreadyExists">>
GWStorageErrInvalidArgument == <<"apigateway/storage.ErrInvalidArgument">>
GWStorageErrDeadlineExeeced == <<"apigateway/storage.ErrDeadlineExeeced">>
GWStorageErrContextCanceled == <<"apigateway/storage.ErrContextCanceled">>
GWStorageErrInternal == <<"apigateway/storage.ErrInternal">>

\* apigateway/internal/service
GWServiceErrNotFound == <<"apigateway/service.ErrNotFound">>
GWServiceErrAlreadyExists == <<"apigateway/service.ErrAlreadyExists">>
GWServiceErrInvalidArgument == <<"apigateway/service.ErrInvalidArgument">>
GWServiceErrDeadlineExeeced == <<"apigateway/service.ErrDeadlineExeeced">>
GWServiceErrContextCanceled == <<"apigateway/service.ErrContextCanceled">>
GWServiceErrInternal == <<"apigateway/service.ErrInternal">>

(***************************************************************************)
(* Operations and the op strings each layer puts in front of its errors.   *)
(***************************************************************************)
Ops == {"GetUsers", "GetUserById", "Insert", "Update", "Delete"}

\* const op of UsersPsqlStorage's methods
PsqlOp(op) ==
    CASE op = "GetUsers"    -> "storage.user.psql.GetUsers"
      [] op = "GetUserById" -> "storage.user.psql.GetUserById"
      [] op = "Insert"      -> "storage.user.psql.Insert"
      [] op = "Update"      -> "storage.user.psql.Update"
      [] op = "Delete"      -> "storage.user.psql.Delete"

\* const op of the UsersManager UsersService's methods
UMServiceOp(op) ==
    CASE op = "GetUsers"    -> "service.users.GetUsers"
      [] op = "GetUserById" -> "service.users.GetUserById"
      [] op = "Insert"      -> "service.users.Insert"
      [] op = "Update"      -> "service.users.Update"
      [] op = "Delete"      -> "service.users.Delete"

\* const op of GRPCUsersStorage's methods
GWStorageOp(op) ==
    CASE op = "GetUsers"    -> "storage.users.grpc.GetUsers"
      [] op = "GetUserById" -> "storage.users.grpc.GetUserById"
      [] op = "Insert"      -> "storage.users.grpc.Insert"
      [] op = "Update"      -> "storage.users.grpc.Update"
      [] op = "Delete"      -> "storage.users.grpc.Delete"

\* const op of the API-Gateway UsersService's methods
GWServiceOp(op) ==
    CASE op = "GetUsers"    -> "service.users.GetUsers"
      [] op = "GetUserById" -> "service.users.GetUserById"
      [] op = "Insert"      -> "service.users.Insert"
      [] op = "Update"      -> "service.users.Update"
      [] op = "Delete"      -> "service.users.Delete"

\* what a failing call returns beside its error: nil for a list, models.User{}
ZeroVal(op) == IF op = "GetUsers" THEN <<>> ELSE ZeroUser

\* a Go (value, error) pair that a call returned
Ret(err, val) == [ret |-> TRUE, err |-> err, val |-> val]

\* a call that has not returned, or was never made
NotReturned == [ret |-> FALSE, err |-> NoErr, val |-> ZeroUser]

\* a gRPC answer: a status code and a message
Answer(code, val) == [ret |-> TRUE, code |-> code, val |-> val]

NoAnswer == [ret |-> FALSE, code |-> "-", val |-> ZeroUser]

\* an HTTP response: a status and a body
Response(status, val) == [ret |-> TRUE, status |-> status, val |-> val]

NoResponse == [ret |-> FALSE, status |-> 0, val |-> ZeroUser]

(***************************************************************************)
(* The users table and the statements the psql storage runs against it.    *)
(* The table is the sequence of its rows.                                  *)
(***************************************************************************)
\* the rows of t whose id is uid
RowsById(t, uid) == SelectSeq(t, LAMBDA row : row.Id = uid)

\* the primary key of the table (id uuid pk) rejects a second row of an id
UniqueViolation(t, user) == Len(RowsById(t, user.Id)) > 0

\* SELECT * FROM users;
QuerySelectAll(t) == [err |-> NoErr, rows |-> t]

\* SELECT * FROM users WHERE id = $1;  with QueryRow(...).Scan
QueryRowById(t, uid) ==
    IF Len(RowsById(t, uid)) = 0
    THEN [err |-> SqlErrNoRows, row |-> ZeroUser]
    ELSE [err |-> NoErr, row |-> Head(RowsById(t, uid))]

\* an INSERT into a table without the primary key: the row is always added
ExecInsertUnconstrained(t, user) ==
    [err |-> NoErr, table |-> Append(t, user), affected |-> 1]

\* an INSERT whose values for login and password are in each other's place
ExecInsertSwapped(t, user) ==
    IF UniqueViolation(t, user)
    THEN [err |-> PqError(PqUniqueViolation), table |-> t, affected |-> 0]
    ELSE [err |-> NoErr,
          table |-> Append(t, [user EXCEPT !.Login = user.Password,
                                           !.Password = user.Login]),
          affected |-> 1]

\* INSERT INTO users (id, login, password, role) VALUES ($1, $2, $3, $4);
ExecInsert(t, user) ==
    IF UniqueViolation(t, user)
    THEN [err |-> PqError(PqUniqueViolation), table |-> t, affected |-> 0]
    ELSE [err |-> NoErr, table |-> Append(t, user), affected |-> 1]

\* an UPDATE that also sets the id of the row to the id of the user
ExecUpdateWithId(t, uid, user) ==
    [err |-> NoErr,
     table |-> [i \in DOMAIN t |-> IF t[i].Id = uid THEN user ELSE t[i]],
     affected |-> Len(RowsById(t, uid))]

\* UPDATE users SET login = $1, password = $2, role = $3 WHERE id = $4;
ExecUpdate(t, uid, user) ==
    [err |-> NoErr,
     table |-> [i \in DOMAIN t |->
                   IF t[i].Id = uid
                   THEN [t[i] EXCEPT !.Login = user.Login,
                                     !.Password = user.Password,
                                     !.Role = user.Role]
                   ELSE t[i]],
     affected |-> Len(RowsById(t, uid))]

\* a DELETE whose WHERE clause matches no row
ExecDeleteNoRow(t, uid) ==
    [err |-> NoErr, table |-> t, affected |-> 0]

\* DELETE FROM users WHERE id = $1;
ExecDelete(t, uid) ==
    [err |-> NoErr,
     table |-> SelectSeq(t, LAMBDA row : row.Id # uid),
     affected |-> Len(RowsById(t, uid))]

\* a statement that fails with err and changes nothing
Failed(t, err) ==
    [err |-> err, table |-> t, affected |-> 0, rows |-> <<>>, row |-> ZeroUser]

\* what the database connection can fail with, beside the statement's own outcome
DbFaults(op) ==
    IF op = "Insert" THEN {SqlErrConnDone, PqError(PqAdminShutdown)}
    ELSE {SqlErrConnDone}

(***************************************************************************)
(* UsersManager: the psql storage, from the outcome q of its statement.    *)
(***************************************************************************)
\* UsersPsqlStorage.GetUsers after QueryContext
PsqlGetUsers(q) ==
    IF q.err # NoErr
    THEN Ret(Wrap(PsqlOp("GetUsers"), q.err), <<>>)
    ELSE Ret(NoErr, q.rows)

\* a GetUserById without the errors.Is(err, sql.ErrNoRows) branch
PsqlGetUserByIdUntranslated(q) ==
    IF q.err # NoErr
    THEN Ret(Wrap(PsqlOp("GetUserById"), q.err), ZeroUser)
    ELSE Ret(NoErr, q.row)

\* UsersPsqlStorage.GetUserById after QueryRowContext(...).Scan
PsqlGetUserById(q) ==
    IF q.err # NoErr
    THEN IF Is(q.err, SqlErrNoRows)
         THEN Ret(Wrap(PsqlOp("GetUserById"), UMStorageErrNotFound), ZeroUser)
         ELSE Ret(Wrap(PsqlOp("GetUserById"), q.err), ZeroUser)
    ELSE Ret(NoErr, q.row)

\* err.(*pq.Error) with pqErr.Code == "23505"
IsPqCode(err, code) == Len(err) = 2 /\ err[1] = "pq.Error" /\ err[2] = code

\* an Insert without the check of the pq error code
PsqlInsertUntranslated(user, q) ==
    IF q.err # NoErr
    THEN Ret(Wrap(PsqlOp("Insert"), q.err), ZeroUser)
    ELSE Ret(NoErr, user)

\* an Insert that takes a unique violation for success
PsqlInsertIgnoresDuplicate(user, q) ==
    IF q.err # NoErr /\ ~IsPqCode(q.err, PqUniqueViolation)
    THEN Ret(Wrap(PsqlOp("Insert"), q.err), ZeroUser)
    ELSE Ret(NoErr, user)

\* UsersPsqlStorage.Insert after ExecContext
PsqlInsert(user, q) ==
    IF q.err # NoErr
    THEN IF IsPqCode(q.err, PqUniqueViolation)
         THEN Ret(Wrap(PsqlOp("Insert"), UMStorageErrAlreadyExists), ZeroUser)
         ELSE Ret(Wrap(PsqlOp("Insert"), q.err), ZeroUser)
    ELSE Ret(NoErr, user)

\* an Update that does not look at RowsAffected
PsqlUpdateUnchecked(user, q) ==
    IF q.err # NoErr
    THEN Ret(Wrap(PsqlOp("Update"), q.err), ZeroUser)
    ELSE Ret(NoErr, user)

\* an Update whose test of the affected rows is inverted
PsqlUpdateInverted(user, q) ==
    IF q.err # NoErr
    THEN Ret(Wrap(PsqlOp("Update"), q.err), ZeroUser)
    ELSE IF q.affected # 0
         THEN Ret(Wrap(PsqlOp("Update"), UMStorageErrNotFound), ZeroUser)
         ELSE Ret(NoErr, user)

\* UsersPsqlStorage.Update after ExecContext
PsqlUpdate(user, q) ==
    IF q.err # NoErr
    THEN Ret(Wrap(PsqlOp("Update"), q.err), ZeroUser)
    ELSE IF q.affected = 0
         THEN Ret(Wrap(PsqlOp("Update"), UMStorageErrNotFound), ZeroUser)
         ELSE Ret(NoErr, user)

\* a Delete that reports every failure of its read as ErrNotFound
PsqlDeleteReadFailedAsNotFound(got) ==
    Ret(Wrap(PsqlOp("Delete"), UMStorageErrNotFound), ZeroUser)

\* UsersPsqlStorage.Delete after its u.GetUserById returned got with an error
PsqlDeleteReadFailed(got) ==
    IF Is(got.err, UMStorageErrNotFound)
    THEN Ret(Wrap(PsqlOp("Delete"), UMStorageErrNotFound), ZeroUser)
    ELSE Ret(Wrap(PsqlOp("Delete"), got.err), ZeroUser)

\* UsersPsqlStorage.Delete after ExecContext of the DELETE
PsqlDelete(userForReturn, q) ==
    IF q.err # NoErr
    THEN Ret(Wrap(PsqlOp("Delete"), q.err), ZeroUser)
    ELSE Ret(NoErr, userForReturn)

\* the select on ctx.Done() at the head of every psql method
PsqlCancelled(op) == Ret(Wrap(PsqlOp(op), ContextCanceled), ZeroVal(op))

(***************************************************************************)
(* UsersManager: the service, from what the storage returned.              *)
(***************************************************************************)
\* the select on ctx.Done() at the head of every service method
UMServiceCancelled(op) == Ret(Wrap(UMServiceOp(op), ContextCanceled), ZeroVal(op))

\* a service that wraps every storage error as it is
UMServiceReturnUnmapped(op, s) ==
    IF s.err = NoErr THEN Ret(NoErr, s.val)
    ELSE Ret(Wrap(UMServiceOp(op), s.err), ZeroVal(op))

\* UsersService.<op> of UsersManager after u.storage.<op> returned s
UMServiceReturn(op, s) ==
    IF s.err = NoErr THEN Ret(NoErr, s.val)
    ELSE IF op \in {"GetUserById", "Update", "Delete"} /\ Is(s.err, UMStorageErrNotFound)
         THEN Ret(Wrap(UMServiceOp(op), UMServiceErrNotFound), ZeroUser)
    ELSE IF op = "Insert" /\ Is(s.err, UMStorageErrAlreadyExists)
         THEN Ret(Wrap(UMServiceOp(op), UMServiceErrAlreadyExists), ZeroUser)
    ELSE Ret(Wrap(UMServiceOp(op), s.err), ZeroVal(op))

(***************************************************************************)
(* The protobuf user and its conversions (package profiles).               *)
(***************************************************************************)
\* profiles.UsrToProtoUsr
UsrToProtoUsr(user) ==
    [Id |-> UUIDString(user.Id), Login |-> user.Login,
     Password |-> user.Password, Role |-> user.Role]

\* profiles.ProtoUsrToUsr
ProtoUsrToUsr(pb) ==
    IF ParseUUID(pb.Id).ok
    THEN [ok |-> TRUE,
          user |-> User(ParseUUID(pb.Id).uuid, pb.Login, pb.Password, pb.Role)]
    ELSE [ok |-> FALSE, user |-> ZeroUser]

\* the users of a list, each as a protobuf user
UsersToProto(users) == [i \in DOMAIN users |-> UsrToProtoUsr(users[i])]

(***************************************************************************)
(* UsersManager: the gRPC server, from what the service returned.          *)
(***************************************************************************)
\* a server that answers a done context with codes.Canceled
UMGrpcCancelledAsCanceled == Answer("Canceled", ZeroUser)

\* the select on ctx.Done() at the head of every ServerAPI method
UMGrpcCancelled == Answer("DeadlineExceeded", ZeroUser)

\* uuid.Parse(req.GetId()) or profiles.ProtoUsrToUsr(req.GetUser()) failed
UMGrpcInvalid == Answer("InvalidArgument", ZeroUser)

\* a server that answers every service error with codes.Internal
UMGrpcReturnAllInternal(op, s) ==
    IF s.err = NoErr
    THEN Answer("OK", IF op = "GetUsers" THEN UsersToProto(s.val) ELSE UsrToProtoUsr(s.val))
    ELSE Answer("Internal", ZeroUser)

\* ServerAPI.<op> after s.Service.<op> returned s
UMGrpcReturn(op, s) ==
    IF s.err = NoErr
    THEN Answer("OK", IF op = "GetUsers" THEN UsersToProto(s.val) ELSE UsrToProtoUsr(s.val))
    ELSE IF op \in {"GetUserById", "Update", "Delete"} /\ Is(s.err, UMServiceErrNotFound)
         THEN Answer("NotFound", ZeroUser)
    ELSE IF op = "Insert" /\ Is(s.err, UMServiceErrAlreadyExists)
         THEN Answer("AlreadyExists", ZeroUser)
    ELSE Answer("Internal", ZeroUser)

(***************************************************************************)
(* API-Gateway: the gRPC storage, from what the client call returned.      *)
(***************************************************************************)
\* the error of a client call: a gRPC status with a code, or another error
StatusError(code) == [status |-> TRUE, code |-> code]

NotAStatusError == [status |-> FALSE, code |-> "-"]

\* the error of uuid.Parse, as profiles.ProtoUsrToUsr returns it
InvalidUUIDError == <<"uuid: invalid UUID">>

\* a helper with no case for DeadlineExceeded, which falls to the default
GrpcErrorHelperNoDeadline(op, err) ==
    IF err.status
    THEN CASE err.code = "Canceled"         -> Wrap(op, GWStorageErrContextCanceled)
           [] err.code = "InvalidArgument"  -> Wrap(op, GWStorageErrInvalidArgument)
           [] err.code = "AlreadyExists"    -> Wrap(op, GWStorageErrAlreadyExists)
           [] err.code = "NotFound"         -> Wrap(op, GWStorageErrNotFound)
           [] OTHER                         -> Wrap(op, GWStorageErrInternal)
    ELSE Wrap(op, GWStorageErrInternal)

\* grpchelper.GrpcErrorHelper
GrpcErrorHelper(op, err) ==
    IF err.status
    THEN CASE err.code = "Canceled"         -> Wrap(op, GWStorageErrContextCanceled)
           [] err.code = "DeadlineExceeded" -> Wrap(op, GWStorageErrDeadlineExeeced)
           [] err.code = "InvalidArgument"  -> Wrap(op, GWStorageErrInvalidArgument)
           [] err.code = "AlreadyExists"    -> Wrap(op, GWStorageErrAlreadyExists)
           [] err.code = "NotFound"         -> Wrap(op, GWStorageErrNotFound)
           [] OTHER                         -> Wrap(op, GWStorageErrInternal)
    ELSE Wrap(op, GWStorageErrInternal)

\* the select on ctx.Done() at the head of every GRPCUsersStorage method
GWStorageCancelled(op) == Ret(Wrap(GWStorageOp(op), ContextCanceled), ZeroVal(op))

\* the users of a protobuf list that convert, converted (the others are skipped)
ProtoToUsers(pbs) ==
    LET good == SelectSeq(pbs, LAMBDA pb : ProtoUsrToUsr(pb).ok)
    IN  [i \in DOMAIN good |-> ProtoUsrToUsr(good[i]).user]

\* what stands for the code of a client error that is no gRPC status
NotAStatus == "(no status)"

\* the error of the client call that returned the answer a
ClientError(a) == IF a.code = NotAStatus THEN NotAStatusError ELSE StatusError(a.code)

\* GRPCUsersStorage.<op> after client.<op> returned the answer a
GWStorageReturn(op, a) ==
    IF a.code # "OK"
    THEN Ret(GrpcErrorHelper(GWStorageOp(op), ClientError(a)), ZeroVal(op))
    ELSE IF op = "GetUsers"
         THEN Ret(NoErr, ProtoToUsers(a.val))
    ELSE IF ProtoUsrToUsr(a.val).ok
         THEN Ret(NoErr, ProtoUsrToUsr(a.val).user)
    ELSE Ret(Wrap(GWStorageOp(op), InvalidUUIDError), ZeroUser)

(***************************************************************************)
(* API-Gateway: the service, from what the storage returned.               *)
(***************************************************************************)
\* the select on ctx.Done() at the head of every service method
GWServiceCancelled(op) == Ret(Wrap(GWServiceOp(op), ContextCanceled), ZeroVal(op))

\* a gateway service whose five methods all map all five storage sentinels
GWServiceReturnSameName(op, s) ==
    IF s.err = NoErr THEN Ret(NoErr, s.val)
    ELSE IF Is(s.err, GWStorageErrContextCanceled)
         THEN Ret(Wrap(GWServiceOp(op), GWServiceErrContextCanceled), ZeroVal(op))
    ELSE IF Is(s.err, GWStorageErrDeadlineExeeced)
         THEN Ret(Wrap(GWServiceOp(op), GWServiceErrDeadlineExeeced), ZeroVal(op))
    ELSE IF Is(s.err, GWStorageErrInvalidArgument)
         THEN Ret(Wrap(GWServiceOp(op), GWServiceErrInvalidArgument), ZeroVal(op))
    ELSE IF Is(s.err, GWStorageErrNotFound)
         THEN Ret(Wrap(GWServiceOp(op), GWServiceErrNotFound), ZeroVal(op))
    ELSE IF Is(s.err, GWStorageErrAlreadyExists)
         THEN Ret(Wrap(GWServiceOp(op), GWServiceErrAlreadyExists), ZeroVal(op))
    ELSE IF op = "GetUsers"
         THEN Ret(Wrap(GWServiceOp(op), s.err), <<>>)
    ELSE Ret(Wrap(GWServiceOp(op), GWServiceErrInternal), ZeroUser)

\* UsersService.<op> of API-Gateway after u.storage.<op> returned s
GWServiceReturn(op, s) ==
    IF s.err = NoErr THEN Ret(NoErr, s.val)
    ELSE IF Is(s.err, GWStorageErrContextCanceled)
         THEN Ret(Wrap(GWServiceOp(op), GWServiceErrContextCanceled), ZeroVal(op))
    ELSE IF Is(s.err, GWStorageErrDeadlineExeeced)
         THEN Ret(Wrap(GWServiceOp(op), GWServiceErrDeadlineExeeced), ZeroVal(op))
    ELSE IF op = "GetUsers"
         THEN Ret(Wrap(GWServiceOp(op), s.err), <<>>)
    ELSE IF Is(s.err, GWStorageErrInvalidArgument)
         THEN Ret(Wrap(GWServiceOp(op), GWServiceErrInvalidArgument), ZeroUser)
    ELSE IF op \in {"GetUserById", "Update", "Delete"} /\ Is(s.err, GWStorageErrNotFound)
         THEN Ret(Wrap(GWServiceOp(op), GWServiceErrNotFound), ZeroUser)
    ELSE IF op = "Insert" /\ Is(s.err, GWStorageErrAlreadyExists)
         THEN Ret(Wrap(GWServiceOp(op), GWServiceErrAlreadyExists), ZeroUser)
    ELSE Ret(Wrap(GWServiceOp(op), GWServiceErrInternal), ZeroUser)

(***************************************************************************)
(* API-Gateway: the HTTP handlers.                                         *)
(***************************************************************************)
StatusOK == 200
StatusCreated == 201
StatusBadRequest == 400
StatusNotFound == 404
StatusRequestTimeout == 408
StatusConflict == 409
StatusInternalServerError == 500

\* the select on r.Context().Done() at the head of every handler
HandlerCancelled == Response(StatusRequestTimeout, ZeroUser)

\* uuid.Parse of the path id, Decode of the body or validate.Struct failed
HandlerBadRequest == Response(StatusBadRequest, ZeroUser)

\* handlers that answer every success with 200, and every error as they do
HandlerReturnAlwaysOK(op, s) ==
    IF s.err = NoErr THEN Response(StatusOK, s.val)
    ELSE IF Is(s.err, GWServiceErrContextCanceled)
         THEN Response(StatusRequestTimeout, ZeroUser)
    ELSE IF op = "GetUsers"
         THEN Response(StatusInternalServerError, ZeroUser)
    ELSE IF Is(s.err, GWServiceErrInvalidArgument)
         THEN Response(StatusBadRequest, ZeroUser)
    ELSE IF op \in {"GetUserById", "Update", "Delete"} /\ Is(s.err, GWServiceErrNotFound)
         THEN Response(StatusNotFound, ZeroUser)
    ELSE IF op = "Insert" /\ Is(s.err, GWServiceErrAlreadyExists)
         THEN Response(StatusConflict, ZeroUser)
    ELSE Response(StatusInternalServerError, ZeroUser)

\* handlers without the case of serviceerrors.ErrInvalidArgument
HandlerReturnNoInvalidArgument(op, s) ==
    IF s.err = NoErr
    THEN Response(IF op = "Insert" THEN StatusCreated ELSE StatusOK, s.val)
    ELSE IF Is(s.err, GWServiceErrContextCanceled)
         THEN Response(StatusRequestTimeout, ZeroUser)
    ELSE IF op = "GetUsers"
         THEN Response(StatusInternalServerError, ZeroUser)
    ELSE IF op \in {"GetUserById", "Update", "Delete"} /\ Is(s.err, GWServiceErrNotFound)
         THEN Response(StatusNotFound, ZeroUser)
    ELSE IF op = "Insert" /\ Is(s.err, GWServiceErrAlreadyExists)
         THEN Response(StatusConflict, ZeroUser)
    ELSE Response(StatusInternalServerError, ZeroUser)

\* <Op>Handler after u.service.<op> returned s
HandlerReturn(op, s) ==
    IF s.err = NoErr
    THEN Response(IF op = "Insert" THEN StatusCreated ELSE StatusOK, s.val)
    ELSE IF Is(s.err, GWServiceErrContextCanceled)
         THEN Response(StatusRequestTimeout, ZeroUser)
    ELSE IF op = "GetUsers"
         THEN Response(StatusInternalServerError, ZeroUser)
    ELSE IF Is(s.err, GWServiceErrInvalidArgument)
         THEN Response(StatusBadRequest, ZeroUser)
    ELSE IF op \in {"GetUserById", "Update", "Delete"} /\ Is(s.err, GWServiceErrNotFound)
         THEN Response(StatusNotFound, ZeroUser)
    ELSE IF op = "Insert" /\ Is(s.err, GWServiceErrAlreadyExists)
         THEN Response(StatusConflict, ZeroUser)
    ELSE Response(StatusInternalServerError, ZeroUser)

\* the JSON body of a request: bytes that do not decode, or an object whose
\* fields may be absent
BadJSON == [json |-> FALSE, id |-> "", login |-> "", password |-> "", role |-> ""]

JSONUser(id, login, password, role) ==
    [json |-> TRUE, id |-> id, login |-> login, password |-> password, role |-> role]

\* a field the JSON object does not have
Absent == ""

\* json.NewDecoder(r.Body).Decode(&userFromRequest)
DecodeUser(body) ==
    IF ~body.json THEN [ok |-> FALSE, user |-> ZeroUser]
    ELSE IF body.id = Absent
         THEN [ok |-> TRUE, user |-> User(NilUUID, body.login, body.password, body.role)]
    ELSE IF ParseUUID(body.id).ok
         THEN [ok |-> TRUE,
               user |-> User(ParseUUID(body.id).uuid, body.login, body.password, body.role)]
    ELSE [ok |-> FALSE, user |-> ZeroUser]

\* a User whose Id alone is `validate:"required"`
ValidateUserIdOnly(user) == user.Id # NilUUID

\* validate.Struct with `validate:"required"` on Id, Login, Password and Role
ValidateUser(user) ==
    /\ user.Id # NilUUID
    /\ user.Login # ""
    /\ user.Password # ""
    /\ user.Role # ""

(***************************************************************************)
(* Requests.  A request is served by one worker and walks down the chain   *)
(* handler -> gateway service -> gateway gRPC storage -> gRPC -> server    *)
(* -> service -> psql storage -> database, one entry check at a time; a    *)
(* gRPC client other than the gateway enters at the server.                *)
(***************************************************************************)
InvalidId == "not-a-uuid"

\* the id of the path /api/v1/users/{id}, or of a gRPC request
PathIds == {UUIDString(u) : u \in UUIDs} \cup {InvalidId}

EmptyBody == JSONUser(Absent, Absent, Absent, Absent)

BodyOf(user) == JSONUser(UUIDString(user.Id), user.Login, user.Password, user.Role)

\* the bodies of POST and PUT requests
Bodies ==
    {BodyOf(u) : u \in UserPool}
    \cup { BadJSON, EmptyBody,
           JSONUser(InvalidId, "ann", "pw1", "admin"),
           JSONUser(Absent, "ann", "pw1", "admin"),
           JSONUser(UUIDString("U1"), Absent, "pw1", "admin"),
           JSONUser(UUIDString("U1"), "ann", Absent, "admin"),
           JSONUser(UUIDString("U1"), "ann", "pw1", Absent) }

\* the users of gRPC requests that do not come from the gateway
ProtoBodies ==
    {BodyOf(u) : u \in UserPool} \cup {JSONUser(InvalidId, "ann", "pw1", "admin")}

HasId(op) == op \in {"GetUserById", "Update", "Delete"}

HasUser(op) == op \in {"Insert", "Update"}

NoCalls ==
    [handler |-> 0, gwsvc |-> 0, gwstor |-> 0, rpc |-> 0,
     grpc |-> 0, umsvc |-> 0, psql |-> 0, db |-> 0]

\* what the entry check of each layer saw of its context: "-" while not entered
NotSeen ==
    [handler |-> "-", gwsvc |-> "-", gwstor |-> "-",
     grpc |-> "-", umsvc |-> "-", psql |-> "-"]

NoOut ==
    [psql |-> NotReturned, umsvc |-> NotReturned, umgrpc |-> NoAnswer, rpc |-> NoAnswer,
     gwstor |-> NotReturned, gwsvc |-> NotReturned, http |-> NoResponse]

\* what the statements of the request met in the table: whether a row of the
\* identifier was there when the first statement ran, and the rows its write
\* affected (-1 while no write ran), the error of its last statement, and the
\* number of requests that had arrived when its first statement ran
NoDb == [found |-> "-", affected |-> -1, err |-> NoErr, ran |-> 0]

NewRequest(entry, op, id, body) ==
    [entry |-> entry, op |-> op, id |-> id, body |-> body, pc |-> "idle",
     ctx |-> FALSE, sctx |-> FALSE, calls |-> NoCalls, seen |-> NotSeen,
     db |-> NoDb, held |-> ZeroUser, out |-> NoOut]

Idle == NewRequest("none", "GetUsers", "", EmptyBody)

Observed(cancelled) == IF cancelled THEN "done" ELSE "live"

\* the identifier and the user that the gateway passes down for its request
HTTPUid(r) == ParseUUID(r.id).uuid
HTTPUser(r) == DecodeUser(r.body).user

\* req.GetId() and req.GetUser() as the server receives them
ReqId(r) == IF r.entry = "http" THEN UUIDString(HTTPUid(r)) ELSE r.id
ReqUser(r) ==
    IF r.entry = "http" THEN UsrToProtoUsr(HTTPUser(r))
    ELSE [Id |-> r.body.id, Login |-> r.body.login,
          Password |-> r.body.password, Role |-> r.body.role]

\* the identifier and the user that the server passes to its service
Uid(r) == ParseUUID(ReqId(r)).uuid
Usr(r) == ProtoUsrToUsr(ReqUser(r)).user

\* ----- returns, from the bottom of the chain to its top -----

\* a ServerAPI method returns the answer a
GrpcAnswers(r, a) ==
    [r EXCEPT !.out.umgrpc = a, !.pc = IF r.entry = "grpc" THEN "done" ELSE "rpcrecv"]

\* s.Service.<op> returns s to the ServerAPI method
UMServiceReturns(r, s) ==
    GrpcAnswers([r EXCEPT !.out.umsvc = s], UMGrpcReturn(r.op, s))

\* a service that calls u.storage.<op> a second time when the first call failed
PsqlReturnsWithRetry(r, p) ==
    IF p.err # NoErr /\ r.calls.psql < 2
    THEN [r EXCEPT !.out.psql = p, !.pc = "db", !.calls.psql = @ + 1]
    ELSE UMServiceReturns([r EXCEPT !.out.psql = p], UMServiceReturn(r.op, p))

\* u.storage.<op> returns p to the UsersManager service
PsqlReturns(r, p) ==
    UMServiceReturns([r EXCEPT !.out.psql = p], UMServiceReturn(r.op, p))

\* a handler writes its response
Responds(r, resp) == [r EXCEPT !.out.http = resp, !.pc = "done"]

\* u.service.<op> returns s to the handler
GWServiceReturns(r, s) ==
    Responds([r EXCEPT !.out.gwsvc = s], HandlerReturn(r.op, s))

\* u.storage.<op> returns s to the gateway service
GWStorageReturns(r, s) ==
    GWServiceReturns([r EXCEPT !.out.gwstor = s], GWServiceReturn(r.op, s))

\* client.<op> returns the answer a to the gateway storage
ClientReturns(r, a) ==
    GWStorageReturns([r EXCEPT !.out.rpc = a], GWStorageReturn(r.op, a))

(***************************************************************************)
(* The state: the users table, the request each worker serves, and the     *)
(* number of requests issued so far.                                       *)
(***************************************************************************)
\* the tables the database may hold when the services start: the rows of
\* earlier runs, no two of one identifier
InitialTables ==
    {<<>>} \cup {<<u>> : u \in UserPool}
    \cup {<<u, v>> : u \in {x \in UserPool : x.Id = "U1"}, v \in {x \in UserPool : x.Id = "U2"}}

Init ==
    /\ table \in InitialTables
    /\ req = [w \in Workers |-> Idle]
    /\ issued = 0
    /\ main = "waiting"

Free(w) == req[w].pc \in {"idle", "done"}

\* a new request goes to the first worker that serves none
Takes(w, max) ==
    /\ issued < max
    /\ Free(w)
    /\ \A v \in Workers : v < w => ~Free(v)

Put(w, r) ==
    /\ req' = [req EXCEPT ![w] = r]
    /\ UNCHANGED main

\* ----- API-Gateway -----

\* a handler without the select on r.Context().Done()
HandlerEnterUnchecked(r) ==
    LET h == [r EXCEPT !.calls.handler = 1, !.seen.handler = Observed(r.ctx)]
    IN  IF HasId(r.op) /\ ~ParseUUID(r.id).ok THEN Responds(h, HandlerBadRequest)
        ELSE IF HasUser(r.op) /\ ~DecodeUser(r.body).ok THEN Responds(h, HandlerBadRequest)
        ELSE IF HasUser(r.op) /\ ~ValidateUser(DecodeUser(r.body).user)
             THEN Responds(h, HandlerBadRequest)
        ELSE [h EXCEPT !.pc = "gwservice", !.calls.gwsvc = @ + 1]

\* the head of a handler: the select on r.Context().Done(), uuid.Parse of the
\* path id, Decode and validate.Struct of the body, then u.service.<op>
HandlerEnter(r) ==
    LET h == [r EXCEPT !.calls.handler = 1, !.seen.handler = Observed(r.ctx)]
    IN  IF r.ctx THEN Responds(h, HandlerCancelled)
        ELSE IF HasId(r.op) /\ ~ParseUUID(r.id).ok THEN Responds(h, HandlerBadRequest)
        ELSE IF HasUser(r.op) /\ ~DecodeUser(r.body).ok THEN Responds(h, HandlerBadRequest)
        ELSE IF HasUser(r.op) /\ ~ValidateUser(DecodeUser(r.body).user)
             THEN Responds(h, HandlerBadRequest)
        ELSE [h EXCEPT !.pc = "gwservice", !.calls.gwsvc = @ + 1]

\* an HTTP request arrives, its context cancelled already or not, and its
\* handler runs up to the call of the service
HTTPRequest(w) ==
    /\ Takes(w, MaxRequests)
    /\ \E op \in Ops, cancelled \in BOOLEAN :
         \E id \in IF HasId(op) THEN PathIds ELSE {""} :
           \E body \in IF HasUser(op) THEN Bodies ELSE {EmptyBody} :
              Put(w, HandlerEnter([NewRequest("http", op, id, body) EXCEPT !.ctx = cancelled]))
    /\ issued' = issued + 1
    /\ UNCHANGED table

\* the head of a gateway service method: the select on ctx.Done(), then
\* u.storage.<op>
GWServiceEnter(r) ==
    LET g == [r EXCEPT !.seen.gwsvc = Observed(r.ctx)]
    IN  IF r.ctx THEN GWServiceReturns(g, GWServiceCancelled(r.op))
        ELSE [g EXCEPT !.pc = "gwstorage", !.calls.gwstor = @ + 1]

GWServiceEntry(w) ==
    /\ req[w].pc = "gwservice"
    /\ Put(w, GWServiceEnter(req[w]))
    /\ UNCHANGED <<table, issued>>

\* the head of a gateway gRPC storage method: the select on ctx.Done(), then
\* client.<op>
GWStorageEnter(r) ==
    LET g == [r EXCEPT !.seen.gwstor = Observed(r.ctx)]
    IN  IF r.ctx THEN GWStorageReturns(g, GWStorageCancelled(r.op))
        ELSE [g EXCEPT !.pc = "rpcsend", !.calls.rpc = @ + 1]

GWStorageEntry(w) ==
    /\ req[w].pc = "gwstorage"
    /\ Put(w, GWStorageEnter(req[w]))
    /\ UNCHANGED <<table, issued>>

\* client.<op>(ctx, ...): a call under a cancelled context ends with the status
\* Canceled and never leaves the gateway, another one reaches the server
RpcSent(r) ==
    IF r.ctx THEN ClientReturns(r, Answer("Canceled", ZeroUser))
    ELSE [r EXCEPT !.pc = "umgrpc", !.calls.grpc = @ + 1]

RpcSend(w) ==
    /\ req[w].pc = "rpcsend"
    /\ Put(w, RpcSent(req[w]))
    /\ UNCHANGED <<table, issued>>

\* the answer of the server reaches the client, unless the context of the call
\* was cancelled meanwhile: then the call ends with the status Canceled
RpcRecv(w) ==
    /\ req[w].pc = "rpcrecv"
    /\ IF req[w].ctx THEN Put(w, ClientReturns(req[w], Answer("Canceled", ZeroUser)))
       ELSE Put(w, ClientReturns(req[w], req[w].out.umgrpc))
    /\ UNCHANGED <<table, issued>>

\* the client of an HTTP request goes away: its context is cancelled
Cancel(w) ==
    /\ req[w].entry = "http"
    /\ req[w].pc \notin {"idle", "done"}
    /\ ~req[w].ctx
    /\ Put(w, [req[w] EXCEPT !.ctx = TRUE])
    /\ UNCHANGED <<table, issued>>

\* ----- UsersManager -----

\* the head of a ServerAPI method: the select on ctx.Done(), uuid.Parse of the
\* id, profiles.ProtoUsrToUsr of the user, then s.Service.<op>
UMGrpcEnter(r) ==
    LET g == [r EXCEPT !.seen.grpc = Observed(r.sctx)]
    IN  IF r.sctx THEN GrpcAnswers(g, UMGrpcCancelled)
        ELSE IF HasId(r.op) /\ ~ParseUUID(ReqId(r)).ok THEN GrpcAnswers(g, UMGrpcInvalid)
        ELSE IF HasUser(r.op) /\ ~ProtoUsrToUsr(ReqUser(r)).ok THEN GrpcAnswers(g, UMGrpcInvalid)
        ELSE [g EXCEPT !.pc = "umservice", !.calls.umsvc = @ + 1]

\* the server starts the method of a call that came from the gateway
UMGrpcEntry(w) ==
    /\ req[w].pc = "umgrpc"
    /\ Put(w, UMGrpcEnter(req[w]))
    /\ UNCHANGED <<table, issued>>

\* a call of another gRPC client arrives, its context cancelled already or not
GRPCRequest(w) ==
    /\ Takes(w, MaxRequests)
    /\ \E op \in Ops, cancelled \in BOOLEAN :
         \E id \in IF HasId(op) THEN PathIds ELSE {""} :
           \E body \in IF HasUser(op) THEN ProtoBodies ELSE {EmptyBody} :
              Put(w, UMGrpcEnter([NewRequest("grpc", op, id, body)
                                     EXCEPT !.sctx = cancelled, !.calls.grpc = 1]))
    /\ issued' = issued + 1
    /\ UNCHANGED table

\* the head of a UsersManager service method: the select on ctx.Done(), then
\* u.storage.<op>
UMServiceEnter(r) ==
    LET g == [r EXCEPT !.seen.umsvc = Observed(r.sctx)]
    IN  IF r.sctx THEN UMServiceReturns(g, UMServiceCancelled(r.op))
        ELSE [g EXCEPT !.pc = "psql", !.calls.psql = @ + 1]

UMServiceEntry(w) ==
    /\ req[w].pc = "umservice"
    /\ Put(w, UMServiceEnter(req[w]))
    /\ UNCHANGED <<table, issued>>

\* a psql storage method without the select on ctx.Done()
PsqlEnterUnchecked(r) ==
    [r EXCEPT !.seen.psql = Observed(r.sctx), !.pc = "db"]

\* the head of a psql storage method: the select on ctx.Done(), then the
\* statement
PsqlEnter(r) ==
    LET g == [r EXCEPT !.seen.psql = Observed(r.sctx)]
    IN  IF r.sctx THEN PsqlReturns(g, PsqlCancelled(r.op))
        ELSE [g EXCEPT !.pc = "db"]

PsqlEntry(w) ==
    /\ req[w].pc = "psql"
    /\ Put(w, PsqlEnter(req[w]))
    /\ UNCHANGED <<table, issued>>

\* psqlStorage.Close() of main has run: the handle of the storage is closed
DBClosed == main \in {"closed", "stopping", "exited"}

\* the outcomes of a statement: database/sql runs none under a cancelled
\* context, and the connection may fail instead of running it
Outcomes(r, normal) ==
    IF DBClosed THEN {Failed(table, SqlErrDBClosed)}
    ELSE IF r.sctx THEN {Failed(table, ContextCanceled)}
    ELSE {normal} \cup {Failed(table, f) : f \in DbFaults(r.op)}

\* whether the statement with outcome q ran, and met a row of the identifier
Found(q, uid) ==
    IF q.err # NoErr /\ ~IsPqCode(q.err, PqUniqueViolation) /\ q.err # SqlErrNoRows THEN "-"
    ELSE IF Len(RowsById(table, uid)) > 0 THEN "yes" ELSE "no"

\* the statement of GetUsers, GetUserById, Insert or Update, and the return
\* of its result up to the server's answer
Statement(w) ==
    /\ req[w].pc = "db"
    /\ req[w].op # "Delete"
    /\ LET r == [req[w] EXCEPT !.calls.db = @ + 1, !.db.ran = issued]
       IN  \/ /\ r.op = "GetUsers"
              /\ \E q \in Outcomes(r, QuerySelectAll(table)) :
                   /\ Put(w, PsqlReturns([r EXCEPT !.db.err = q.err], PsqlGetUsers(q)))
                   /\ UNCHANGED table
           \/ /\ r.op = "GetUserById"
              /\ \E q \in Outcomes(r, QueryRowById(table, Uid(r))) :
                   /\ Put(w, PsqlReturns([r EXCEPT !.db.found = Found(q, Uid(r)),
                                                   !.db.err = q.err],
                                         PsqlGetUserById(q)))
                   /\ UNCHANGED table
           \/ /\ r.op = "Insert"
              /\ \E q \in Outcomes(r, ExecInsert(table, Usr(r))) :
                   /\ Put(w, PsqlReturns([r EXCEPT !.db.found = Found(q, Usr(r).Id),
                                                   !.db.affected = q.affected,
                                                   !.db.err = q.err],
                                         PsqlInsert(Usr(r), q)))
                   /\ table' = q.table
           \/ /\ r.op = "Update"
              /\ \E q \in Outcomes(r, ExecUpdate(table, Uid(r), Usr(r))) :
                   /\ Put(w, PsqlReturns([r EXCEPT !.db.found = Found(q, Uid(r)),
                                                   !.db.affected = q.affected,
                                                   !.db.err = q.err],
                                         PsqlUpdate(Usr(r), q)))
                   /\ table' = q.table
    /\ UNCHANGED issued

\* Delete reads the row with u.GetUserById, which checks the context itself
DeleteRead(w) ==
    /\ req[w].pc = "db"
    /\ req[w].op = "Delete"
    /\ IF req[w].sctx
       THEN Put(w, PsqlReturns(req[w], PsqlDeleteReadFailed(PsqlCancelled("GetUserById"))))
       ELSE \E q \in Outcomes(req[w], QueryRowById(table, Uid(req[w]))) :
              LET r   == [req[w] EXCEPT !.calls.db = @ + 1,
                                        !.db.ran = issued,
                                        !.db.found = Found(q, Uid(req[w])),
                                        !.db.err = q.err]
                  got == PsqlGetUserById(q)
              IN  IF got.err # NoErr THEN Put(w, PsqlReturns(r, PsqlDeleteReadFailed(got)))
                  ELSE Put(w, [r EXCEPT !.held = got.val, !.pc = "dbdel"])
    /\ UNCHANGED <<table, issued>>

\* Delete runs its DELETE statement and returns the row it read
DeleteExec(w) ==
    /\ req[w].pc = "dbdel"
    /\ \E q \in Outcomes(req[w], ExecDelete(table, Uid(req[w]))) :
         /\ Put(w, PsqlReturns([req[w] EXCEPT !.calls.db = @ + 1,
                                              !.db.affected = IF q.err = NoErr
                                                              THEN q.affected ELSE -1,
                                              !.db.err = q.err],
                               PsqlDelete(req[w].held, q)))
         /\ table' = q.table
    /\ UNCHANGED issued

\* the context of a call on the server is cancelled: its client went away
ServerCancel(w) ==
    /\ req[w].pc \in {"umgrpc", "umservice", "psql", "db", "dbdel"}
    /\ ~req[w].sctx
    /\ req[w].entry = "grpc" \/ req[w].ctx
    /\ Put(w, [req[w] EXCEPT !.sctx = TRUE])
    /\ UNCHANGED <<table, issued>>

\* a step of the request that worker w serves
Step(w) ==
    \/ GWServiceEntry(w)
    \/ GWStorageEntry(w)
    \/ RpcSend(w)
    \/ RpcRecv(w)
    \/ Cancel(w)
    \/ UMGrpcEntry(w)
    \/ UMServiceEntry(w)
    \/ PsqlEntry(w)
    \/ Statement(w)
    \/ DeleteRead(w)
    \/ DeleteExec(w)
    \/ ServerCancel(w)

\* requests of every kind, one after the other
Next ==
    \E w \in Serial :
       \/ HTTPRequest(w)
       \/ GRPCRequest(w)
       \/ Step(w)

Spec == Init /\ [][Next]_vars

\* the way of a request from its handler down to its first statement, when its
\* input is valid and its client stays
Descend(r) ==
    PsqlEnter(UMServiceEnter(UMGrpcEnter(RpcSent(
        GWStorageEnter(GWServiceEnter(HandlerEnter(r)))))))

\* an HTTP request with valid input arrives and gets as far as its statement
ConcurrentRequest(w) ==
    /\ Takes(w, MaxConcurrent)
    /\ \E op \in Ops :
         \E u \in IF HasId(op) THEN UUIDs ELSE {NilUUID} :
           \E user \in IF HasUser(op) THEN UserPool ELSE {ZeroUser} :
              Put(w, Descend(NewRequest("http", op,
                                        IF HasId(op) THEN UUIDString(u) ELSE "",
                                        IF HasUser(op) THEN BodyOf(user) ELSE EmptyBody)))
    /\ issued' = issued + 1
    /\ UNCHANGED table

\* requests that reach the table, side by side: the statements of one request
\* interleave with those of the other
NextConcurrent ==
    \E w \in Workers :
       \/ ConcurrentRequest(w)
       \/ Statement(w)
       \/ DeleteRead(w)
       \/ DeleteExec(w)
       \/ RpcRecv(w)

SpecConcurrent == Init /\ [][NextConcurrent]_vars

(***************************************************************************)
(* Each layer of the gateway over any implementation of the interface it   *)
(* calls: the layer below is replaced by one that returns what it likes.   *)
(***************************************************************************)
\* requests issued in one behaviour, when the layer below is replaced
MaxMocked == 2

\* an error that is none of the chain's
OtherError == <<"some error">>

\* the errors an IUsersService of the handlers may return
GWServiceErrors ==
    {GWServiceErrNotFound, GWServiceErrAlreadyExists, GWServiceErrInvalidArgument,
     GWServiceErrDeadlineExeeced, GWServiceErrContextCanceled, GWServiceErrInternal,
     ContextCanceled, OtherError}

\* the errors an IUsersStorage of the gateway service may return
GWStorageErrors ==
    {GWStorageErrNotFound, GWStorageErrAlreadyExists, GWStorageErrInvalidArgument,
     GWStorageErrDeadlineExeeced, GWStorageErrContextCanceled, GWStorageErrInternal,
     ContextCanceled, OtherError}

\* the codes of the errors a client call may return, and the error without one
ClientCodes ==
    {"Canceled", "DeadlineExceeded", "InvalidArgument", "AlreadyExists", "NotFound",
     "Internal", "Unavailable", "Unknown", NotAStatus}

\* what an implementation may return for op: a value, or one of errs, bare or
\* wrapped
MockResults(op, errs) ==
    {Ret(NoErr, IF op = "GetUsers" THEN table ELSE User("U1", "ann", "pw1", "admin"))}
    \cup {Ret(e, ZeroVal(op)) : e \in errs}
    \cup {Ret(Wrap("mock", e), ZeroVal(op)) : e \in errs}

\* a valid HTTP request of op, its context not cancelled
ValidRequest(op) ==
    NewRequest("http", op,
               IF HasId(op) THEN UUIDString("U1") ELSE "",
               IF HasUser(op) THEN BodyOf(User("U1", "ann", "pw1", "admin")) ELSE EmptyBody)

\* a handler over an IUsersService that returns s
HandlerOverService(w) ==
    /\ Takes(w, MaxMocked)
    /\ \E op \in Ops :
         \E s \in MockResults(op, GWServiceErrors) :
            Put(w, GWServiceReturns(HandlerEnter(ValidRequest(op)), s))
    /\ issued' = issued + 1
    /\ UNCHANGED table

\* a handler and the gateway service over an IUsersStorage that returns s
ServiceOverStorage(w) ==
    /\ Takes(w, MaxMocked)
    /\ \E op \in Ops :
         \E s \in MockResults(op, GWStorageErrors) :
            Put(w, GWStorageReturns(GWServiceEnter(HandlerEnter(ValidRequest(op))), s))
    /\ issued' = issued + 1
    /\ UNCHANGED table

\* a handler, the gateway service and the gateway storage over a client whose
\* call fails with a code of ClientCodes
StorageOverClient(w) ==
    /\ Takes(w, MaxMocked)
    /\ \E op \in Ops :
         \E code \in ClientCodes :
            Put(w, ClientReturns(
                      RpcSent(GWStorageEnter(GWServiceEnter(HandlerEnter(ValidRequest(op))))),
                      Answer(code, ZeroUser)))
    /\ issued' = issued + 1
    /\ UNCHANGED table

NextMocked ==
    \E w \in Serial :
       \/ HandlerOverService(w)
       \/ ServiceOverStorage(w)
       \/ StorageOverClient(w)

SpecMocked == Init /\ [][NextMocked]_vars

(***************************************************************************)
(* The UsersManager process until it exits: main waits for SIGTERM or      *)
(* SIGINT, closes the storage, then stops the gRPC server, which goes on   *)
(* serving until it is told to stop.                                       *)
(***************************************************************************)
\* <-stop: the signal arrives
Signal ==
    /\ main = "waiting"
    /\ main' = "signalled"
    /\ UNCHANGED <<table, req, issued>>

\* psqlStorage.Close()
Close ==
    /\ main = "signalled"
    /\ main' = "closed"
    /\ UNCHANGED <<table, req, issued>>

\* application.GRPCApp.Stop() is called: GracefulStop takes no new call
Stop ==
    /\ main = "closed"
    /\ main' = "stopping"
    /\ UNCHANGED <<table, req, issued>>

\* GracefulStop returns when the calls in flight have been answered, and main
\* returns
Exit ==
    /\ main = "stopping"
    /\ \A w \in Workers : Free(w)
    /\ main' = "exited"
    /\ UNCHANGED <<table, req, issued>>

\* the server takes a call as long as it was not told to stop
Serve(w) ==
    /\ main \in {"waiting", "signalled", "closed"}
    /\ GRPCRequest(w)

NextShutdown ==
    \/ Signal
    \/ Close
    \/ Stop
    \/ Exit
    \/ \E w \in Serial :
          \/ Serve(w)
          \/ UMServiceEntry(w)
          \/ PsqlEntry(w)
          \/ Statement(w)
          \/ DeleteRead(w)
          \/ DeleteExec(w)
          \/ ServerCancel(w)

SpecShutdown == Init /\ [][NextShutdown]_vars

(***************************************************************************)
(* Properties.                                                             *)
(***************************************************************************)
\* the requests that are being served or were served last
Requests == {req[w] : w \in Workers}

\* r has its response (or, for a call of another gRPC client, its answer)
IsDone(r) == r.pc = "done"

\* the answer of the server reached the gateway storage as the server gave it
Received(r) == r.out.rpc.ret /\ r.out.rpc.code = r.out.umgrpc.code

\* C1: an Insert whose INSERT statement meets a row of its identifier yields
\* AlreadyExists at every layer: the psql storage, the UsersManager service and
\* the gateway storage and service return an error wrapping their own
\* ErrAlreadyExists, the gRPC server the code AlreadyExists, and InsertHandler
\* answers 409 (each layer given that the layer below reported it).
C1_DuplicateInsertAlreadyExists ==
    \A r \in Requests :
       r.op = "Insert" =>
          /\ r.db.found = "yes" =>
                /\ r.out.psql.ret
                /\ Is(r.out.psql.err, UMStorageErrAlreadyExists)
          /\ (r.out.psql.ret /\ Is(r.out.psql.err, UMStorageErrAlreadyExists)) =>
                /\ Is(r.out.umsvc.err, UMServiceErrAlreadyExists)
                /\ r.out.umgrpc.code = "AlreadyExists"
          /\ (r.out.rpc.ret /\ r.out.rpc.code = "AlreadyExists") =>
                /\ Is(r.out.gwstor.err, GWStorageErrAlreadyExists)
                /\ Is(r.out.gwsvc.err, GWServiceErrAlreadyExists)
                /\ r.out.http.status = StatusConflict
          /\ (r.entry = "http" /\ IsDone(r) /\ r.db.found = "yes" /\ Received(r)) =>
                r.out.http.status = StatusConflict

C1_Witness ==
    \E r \in Requests :
       /\ r.op = "Insert" /\ r.entry = "http" /\ IsDone(r)
       /\ r.db.found = "yes"
       /\ Len(RowsById(table, HTTPUser(r).Id)) = 1
       /\ r.out.http.status = StatusConflict

\* C2: a GetUserById whose SELECT meets no row of its identifier yields
\* NotFound at every layer: the psql storage, the UsersManager service and the
\* gateway storage and service return an error wrapping their own ErrNotFound,
\* the gRPC server the code NotFound, and GetUserByIdHandler answers 404.
C2_MissingUserNotFound ==
    \A r \in Requests :
       r.op = "GetUserById" =>
          /\ r.db.found = "no" =>
                /\ r.out.psql.ret
                /\ Is(r.out.psql.err, UMStorageErrNotFound)
          /\ (r.out.psql.ret /\ Is(r.out.psql.err, UMStorageErrNotFound)) =>
                /\ Is(r.out.umsvc.err, UMServiceErrNotFound)
                /\ r.out.umgrpc.code = "NotFound"
          /\ (r.out.rpc.ret /\ r.out.rpc.code = "NotFound") =>
                /\ Is(r.out.gwstor.err, GWStorageErrNotFound)
                /\ Is(r.out.gwsvc.err, GWServiceErrNotFound)
                /\ r.out.http.status = StatusNotFound
          /\ (r.entry = "http" /\ IsDone(r) /\ r.db.found = "no" /\ Received(r)) =>
                r.out.http.status = StatusNotFound

C2_Witness ==
    \E r \in Requests :
       /\ r.op = "GetUserById" /\ r.entry = "http" /\ IsDone(r)
       /\ r.db.found = "no"
       /\ Len(RowsById(table, HTTPUid(r))) = 0
       /\ r.out.http.status = StatusNotFound

\* C3: an Update or Delete whose identifier has no row reports NotFound (404),
\* and one that reports success has written: the Update changed, the Delete
\* removed, a row that was there.
C3_NoSilentNoOp ==
    \A r \in Requests :
       (r.op \in {"Update", "Delete"} /\ r.out.psql.ret) =>
          /\ r.db.found = "no" => Is(r.out.psql.err, UMStorageErrNotFound)
          /\ (r.db.found = "no" /\ IsDone(r) /\ Received(r)) =>
                r.out.http.status = StatusNotFound
          /\ r.out.psql.err = NoErr => r.db.affected >= 1

\* C4: an HTTP request whose context is cancelled when its handler starts is
\* answered 408, and the handler calls nothing: no users service, no gRPC
\* call, no storage operation, no statement.
C4_CancelledRequestTimesOut ==
    \A r \in Requests :
       (r.entry = "http" /\ r.seen.handler = "done") =>
          /\ IsDone(r)
          /\ r.out.http.status = StatusRequestTimeout
          /\ r.calls.gwsvc = 0 /\ r.calls.gwstor = 0
          /\ r.calls.rpc = 0 /\ r.calls.grpc = 0
          /\ r.calls.umsvc = 0 /\ r.calls.psql = 0 /\ r.calls.db = 0
          /\ ~r.out.gwsvc.ret /\ ~r.out.psql.ret

C4_Witness ==
    \E r \in Requests :
       /\ r.entry = "http" /\ r.op = "Insert" /\ r.seen.handler = "done"
       /\ ValidateUser(HTTPUser(r))
       /\ Len(RowsById(table, HTTPUser(r).Id)) = 0
       /\ r.out.http.status = StatusRequestTimeout

\* C5: an operation that finds its context cancelled when it starts returns an
\* error wrapping context.Canceled and calls nothing below itself, at the
\* gateway service, the gateway gRPC storage, the UsersManager service and
\* the psql storage; a UsersManager gRPC method that finds its context done
\* answers DeadlineExceeded and does not call the service.
C5_CancelledAtEntry ==
    \A r \in Requests :
       /\ r.seen.gwsvc = "done" =>
             /\ r.out.gwsvc.ret /\ Is(r.out.gwsvc.err, ContextCanceled)
             /\ r.calls.gwstor = 0 /\ ~r.out.gwstor.ret
       /\ r.seen.gwstor = "done" =>
             /\ r.out.gwstor.ret /\ Is(r.out.gwstor.err, ContextCanceled)
             /\ r.calls.rpc = 0 /\ ~r.out.rpc.ret
       /\ r.seen.grpc = "done" =>
             /\ r.out.umgrpc.ret /\ r.out.umgrpc.code = "DeadlineExceeded"
             /\ r.calls.umsvc = 0 /\ ~r.out.umsvc.ret
       /\ r.seen.umsvc = "done" =>
             /\ r.out.umsvc.ret /\ Is(r.out.umsvc.err, ContextCanceled)
             /\ r.calls.psql = 0 /\ ~r.out.psql.ret
       /\ r.seen.psql = "done" =>
             /\ r.out.psql.ret /\ Is(r.out.psql.err, ContextCanceled)
             /\ r.calls.db = 0

C5_Witness ==
    \E r \in Requests :
       /\ r.entry = "http" /\ r.op = "Update"
       /\ r.seen.umsvc = "live" /\ r.seen.psql = "done"
       /\ Is(r.out.psql.err, ContextCanceled)
       /\ r.calls.db = 0

\* C6: whatever Inserts, Updates and Deletes run, and however their statements
\* interleave, no two rows of the table have the same identifier.
C6_UniqueIdentifiers ==
    \A i, j \in DOMAIN table : i # j => table[i].Id # table[j].Id

C6_Witness ==
    \E v, w \in Workers :
       /\ v # w
       /\ req[v].op = "Insert" /\ req[w].op = "Insert"
       /\ HTTPUser(req[v]).Id = HTTPUser(req[w]).Id
       /\ req[v].out.psql.ret /\ req[v].out.psql.err = NoErr
       /\ req[w].out.psql.ret /\ Is(req[w].out.psql.err, UMStorageErrAlreadyExists)
       /\ Len(table) = 2

\* the codes the UsersManager gRPC methods answer a failing call with
ServerAPICodes == {"InvalidArgument", "NotFound", "AlreadyExists", "DeadlineExceeded", "Internal"}

\* C7 (amended): every error of the five UsersManager gRPC methods has a code
\* in {InvalidArgument, NotFound, AlreadyExists, DeadlineExceeded, Internal}:
\* a done context is answered DeadlineExceeded, never Canceled.
C7_ServerCodes ==
    \A r \in Requests :
       (r.out.umgrpc.ret /\ r.out.umgrpc.code # "OK") =>
          r.out.umgrpc.code \in ServerAPICodes

C7_Witness ==
    \E r \in Requests :
       /\ r.seen.grpc = "done"
       /\ r.out.umgrpc.ret
       /\ r.out.umgrpc.code = "DeadlineExceeded"

\* C7 as stated: every error of the five UsersManager gRPC methods has a code
\* in {InvalidArgument, NotFound, AlreadyExists, Canceled, Internal}.
C7_Original ==
    \A r \in Requests :
       (r.out.umgrpc.ret /\ r.out.umgrpc.code # "OK") =>
          r.out.umgrpc.code \in
             {"InvalidArgument", "NotFound", "AlreadyExists", "Canceled", "Internal"}

\* C8: every HTTP response has a status in {200, 201, 400, 404, 408, 409,
\* 500}; a handler whose service call succeeded answers 201 for Insert and 200
\* for the other four, and no other response has one of these two.
C8_HTTPStatuses ==
    \A r \in Requests :
       r.out.http.ret =>
          /\ r.out.http.status \in
                {StatusOK, StatusCreated, StatusBadRequest, StatusNotFound,
                 StatusRequestTimeout, StatusConflict, StatusInternalServerError}
          /\ (r.out.gwsvc.ret /\ r.out.gwsvc.err = NoErr) =>
                r.out.http.status = IF r.op = "Insert" THEN StatusCreated ELSE StatusOK
          /\ r.out.http.status \in {StatusOK, StatusCreated} =>
                (r.out.gwsvc.ret /\ r.out.gwsvc.err = NoErr)

C8_Witness ==
    \E r \in Requests :
       /\ r.entry = "http" /\ r.op = "Insert" /\ IsDone(r)
       /\ r.db.affected = 1
       /\ r.out.http.status = StatusCreated
       /\ r.out.http.val = HTTPUser(r)

\* the kinds of failure
Kinds == {"NotFound", "AlreadyExists", "InvalidArgument", "Canceled", "Internal"}

\* the errors that report each kind: the sentinels of the four packages and
\* context.Canceled; Internal is ErrInternal, or an error of the database or of
\* a conversion that no layer has a sentinel for
ErrorsOfKind(k) ==
    CASE k = "NotFound" ->
           {UMStorageErrNotFound, UMServiceErrNotFound,
            GWStorageErrNotFound, GWServiceErrNotFound}
      [] k = "AlreadyExists" ->
           {UMStorageErrAlreadyExists, UMServiceErrAlreadyExists,
            GWStorageErrAlreadyExists, GWServiceErrAlreadyExists}
      [] k = "InvalidArgument" ->
           {UMServiceErrInvalidArgument, GWStorageErrInvalidArgument,
            GWServiceErrInvalidArgument}
      [] k = "Canceled" ->
           {ContextCanceled,
            GWStorageErrContextCanceled, GWStorageErrDeadlineExeeced,
            GWServiceErrContextCanceled, GWServiceErrDeadlineExeeced}
      [] k = "Internal" ->
           {GWStorageErrInternal, GWServiceErrInternal, InvalidUUIDError,
            SqlErrConnDone, PqError(PqAdminShutdown)}

\* the kinds that the error err reports
KindsOfError(err) == {k \in Kinds : \E e \in ErrorsOfKind(k) : Is(err, e)}

\* the kind that a gRPC status code, and an HTTP status, reports
KindsOfCode(code) ==
    CASE code = "NotFound"         -> {"NotFound"}
      [] code = "AlreadyExists"    -> {"AlreadyExists"}
      [] code = "InvalidArgument"  -> {"InvalidArgument"}
      [] code = "Canceled"         -> {"Canceled"}
      [] code = "DeadlineExceeded" -> {"Canceled"}
      [] code = "Internal"         -> {"Internal"}
      [] OTHER                     -> {}

KindsOfStatus(status) ==
    CASE status = StatusNotFound            -> {"NotFound"}
      [] status = StatusConflict            -> {"AlreadyExists"}
      [] status = StatusBadRequest          -> {"InvalidArgument"}
      [] status = StatusRequestTimeout      -> {"Canceled"}
      [] status = StatusInternalServerError -> {"Internal"}
      [] OTHER                              -> {}

\* a call that returned an error
Fails(o) == o.ret /\ o.err # NoErr

\* C9: at each of the six layers, for each operation, a failure is reported
\* as exactly one of the kinds NotFound, AlreadyExists, InvalidArgument,
\* Canceled/DeadlineExceeded and Internal, and a failure of the layer below
\* is reported as a failure.
C9_OneKindPerFailure ==
    \A r \in Requests :
       /\ Fails(r.out.psql) => Cardinality(KindsOfError(r.out.psql.err)) = 1
       /\ Fails(r.out.umsvc) => Cardinality(KindsOfError(r.out.umsvc.err)) = 1
       /\ Fails(r.out.gwstor) => Cardinality(KindsOfError(r.out.gwstor.err)) = 1
       /\ Fails(r.out.gwsvc) => Cardinality(KindsOfError(r.out.gwsvc.err)) = 1
       /\ (r.out.umgrpc.ret /\ r.out.umgrpc.code # "OK") =>
             Cardinality(KindsOfCode(r.out.umgrpc.code)) = 1
       /\ (r.out.rpc.ret /\ r.out.rpc.code # "OK") =>
             Cardinality(KindsOfCode(r.out.rpc.code)) = 1
       /\ (r.out.http.ret /\ r.out.http.status \notin {StatusOK, StatusCreated}) =>
             Cardinality(KindsOfStatus(r.out.http.status)) = 1
       /\ Fails(r.out.psql) => Fails(r.out.umsvc)
       /\ Fails(r.out.umsvc) => (r.out.umgrpc.ret /\ r.out.umgrpc.code # "OK")
       /\ (r.out.rpc.ret /\ r.out.rpc.code # "OK") => Fails(r.out.gwstor)
       /\ Fails(r.out.gwstor) => Fails(r.out.gwsvc)
       /\ Fails(r.out.gwsvc) =>
             (r.out.http.ret /\ r.out.http.status \notin {StatusOK, StatusCreated})

C9_Witness ==
    \E r \in Requests :
       /\ r.entry = "http" /\ r.op = "GetUserById" /\ IsDone(r)
       /\ r.db.found = "-"
       /\ Is(r.out.psql.err, SqlErrConnDone)
       /\ KindsOfError(r.out.psql.err) = {"Internal"}
       /\ KindsOfError(r.out.gwsvc.err) = {"Internal"}
       /\ r.out.http.status = StatusInternalServerError

\* whether the id, or the identifier of the user, of the gRPC request of r is
\* no UUID
InvalidRequest(r) ==
    \/ HasId(r.op) /\ ~ParseUUID(ReqId(r)).ok
    \/ HasUser(r.op) /\ ~ParseUUID(ReqUser(r).Id).ok

\* C10: the UsersManager gRPC server answers a service error wrapping
\* ErrNotFound with NotFound (GetUserById, Update, Delete), one wrapping
\* ErrAlreadyExists with AlreadyExists (Insert), and every other service error
\* with Internal; a request (its context not done) whose id or whose user
\* identifier is no UUID is answered InvalidArgument without a service call.
C10_ServerMapping ==
    \A r \in Requests :
       /\ Fails(r.out.umsvc) =>
             r.out.umgrpc.code =
                IF HasId(r.op) /\ Is(r.out.umsvc.err, UMServiceErrNotFound)
                THEN "NotFound"
                ELSE IF r.op = "Insert" /\ Is(r.out.umsvc.err, UMServiceErrAlreadyExists)
                     THEN "AlreadyExists"
                     ELSE "Internal"
       /\ (r.seen.grpc = "live" /\ InvalidRequest(r)) =>
             /\ r.out.umgrpc.ret
             /\ r.out.umgrpc.code = "InvalidArgument"
             /\ r.calls.umsvc = 0
             /\ ~r.out.umsvc.ret

C10_Witness ==
    \E r \in Requests :
       /\ r.entry = "grpc" /\ r.op = "Update"
       /\ r.seen.grpc = "live" /\ ~InvalidRequest(r)
       /\ Is(r.out.umsvc.err, UMServiceErrNotFound)
       /\ r.out.umgrpc.code = "NotFound"

\* C11: the handlers answer the error of the gateway service with 408 when it
\* wraps ErrContextCanceled; GetUsers answers every other error with 500; the
\* other four answer 400 for ErrInvalidArgument, 404 for ErrNotFound (get,
\* update, delete), 409 for ErrAlreadyExists (insert), and 500 for every
\* other error.
C11_HandlerMapping ==
    \A r \in Requests :
       (Fails(r.out.gwsvc) /\ r.out.http.ret) =>
          LET err    == r.out.gwsvc.err
              status == r.out.http.status
              timeout  == Is(err, GWServiceErrContextCanceled)
              invalid  == r.op # "GetUsers" /\ Is(err, GWServiceErrInvalidArgument)
              notfound == HasId(r.op) /\ Is(err, GWServiceErrNotFound)
              exists   == r.op = "Insert" /\ Is(err, GWServiceErrAlreadyExists)
          IN  /\ timeout => status = StatusRequestTimeout
              /\ invalid => status = StatusBadRequest
              /\ notfound => status = StatusNotFound
              /\ exists => status = StatusConflict
              /\ ~(timeout \/ invalid \/ notfound \/ exists) =>
                    status = StatusInternalServerError

C11_Witness ==
    \E r \in Requests :
       /\ r.op = "Update" /\ IsDone(r)
       /\ r.calls.gwsvc = 1 /\ r.calls.gwstor = 0
       /\ Is(r.out.gwsvc.err, GWServiceErrInvalidArgument)
       /\ r.out.http.status = StatusBadRequest

C13_BadRequestRejected ==
    \A r \in Requests :
       LET badId   == HasId(r.op) /\ ~ParseUUID(r.id).ok
           badBody == HasUser(r.op) /\
                         (\/ ~r.body.json
                          \/ r.body.id = Absent \/ r.body.login = Absent
                          \/ r.body.password = Absent \/ r.body.role = Absent)
       IN  (r.entry = "http" /\ r.seen.handler = "live" /\ (badId \/ badBody)) =>
              /\ IsDone(r)
              /\ r.out.http.status = StatusBadRequest
              /\ r.calls.gwsvc = 0 /\ ~r.out.gwsvc.ret
              /\ r.calls.rpc = 0 /\ r.calls.grpc = 0
              /\ r.calls.psql = 0 /\ r.calls.db = 0

C13_Witness ==
    \E r \in Requests :
       /\ r.entry = "http" /\ r.op = "Update" /\ r.seen.handler = "live"
       /\ ParseUUID(r.id).ok
       /\ r.body = JSONUser(UUIDString("U1"), "ann", "pw1", Absent)
       /\ r.out.http.status = StatusBadRequest
       /\ Len(RowsById(table, HTTPUid(r))) = 1

\* C14: the statement of Update(uid, user) leaves the number and the
\* identifiers of the rows as they are and every row of another identifier
\* unchanged; the row of uid keeps its identifier and gets the login, the
\* password and the role of user, whatever user.Id is.
C14_UpdateFrame ==
    [][\A w \in Workers :
          (req[w].op = "Update" /\ req[w].pc = "db" /\ req'[w].pc # "db") =>
             LET uid  == Uid(req[w])
                 user == Usr(req[w])
             IN  /\ Len(table') = Len(table)
                 /\ \A i \in DOMAIN table :
                       /\ table'[i].Id = table[i].Id
                       /\ table[i].Id # uid => table'[i] = table[i]
                       /\ table[i].Id = uid =>
                             \/ table'[i] = table[i]
                             \/ table'[i] = User(uid, user.Login, user.Password, user.Role)]_vars

C14_Witness ==
    \E r \in Requests :
       /\ r.op = "Update" /\ r.out.psql.ret /\ r.out.psql.err = NoErr
       /\ r.db.affected = 1
       /\ Usr(r).Id # Uid(r)
       /\ Len(table) = 2
       /\ RowsById(table, Uid(r)) = <<User(Uid(r), Usr(r).Login, Usr(r).Password, Usr(r).Role)>>
       /\ Len(RowsById(table, Usr(r).Id)) = 1

\* C15: nothing is retried: for one request each of the handler, the gateway
\* service, the gateway storage, the client call, the server method, the
\* UsersManager service and the storage operation runs at most once, a layer
\* is called only by the layer above it, and the failure of a call is what
\* its caller returns, the first time it happens.
C15_NoRetry ==
    \A r \in Requests :
       /\ r.calls.handler <= 1 /\ r.calls.gwsvc <= r.calls.handler
       /\ r.calls.gwstor <= r.calls.gwsvc /\ r.calls.rpc <= r.calls.gwstor
       /\ r.calls.grpc <= 1 /\ (r.entry = "http" => r.calls.grpc <= r.calls.rpc)
       /\ r.calls.umsvc <= r.calls.grpc /\ r.calls.psql <= r.calls.umsvc
       /\ Fails(r.out.psql) =>
             /\ Fails(r.out.umsvc)
             /\ r.out.umgrpc.ret /\ r.out.umgrpc.code # "OK"
       /\ (r.out.rpc.ret /\ r.out.rpc.code # "OK") =>
             /\ Fails(r.out.gwstor) /\ Fails(r.out.gwsvc)
             /\ r.out.http.ret /\ r.out.http.status \notin {StatusOK, StatusCreated}
             /\ IsDone(r)

C15_Witness ==
    \E r \in Requests :
       /\ r.entry = "http" /\ r.op = "GetUsers" /\ IsDone(r)
       /\ r.calls = [handler |-> 1, gwsvc |-> 1, gwstor |-> 1, rpc |-> 1,
                     grpc |-> 1, umsvc |-> 1, psql |-> 1, db |-> 1]
       /\ Is(r.out.psql.err, SqlErrConnDone)
       /\ r.out.http.status = StatusInternalServerError

\* the requests of the workers v and w ran their statements side by side:
\* both ran them after the last request arrived, so that no statement of a
\* third request ran between theirs
SideBySide(v, w) ==
    /\ v # w
    /\ req[v].out.psql.ret /\ req[w].out.psql.ret
    /\ req[v].db.ran = issued /\ req[w].db.ran = issued

\* C16: of two Inserts of one identifier that run side by side against a
\* table without a row of it (their statements not failing for another
\* reason), exactly one returns success (201) and the other AlreadyExists
\* (409).
C16_OneInsertWins ==
    \A v, w \in Workers :
       LET a == req[v]
           b == req[w]
           ranOk(r) == r.db.err = NoErr \/ IsPqCode(r.db.err, PqUniqueViolation)
       IN  (/\ SideBySide(v, w)
            /\ a.op = "Insert" /\ b.op = "Insert" /\ Usr(a).Id = Usr(b).Id
            /\ ranOk(a) /\ ranOk(b)
            /\ a.db.found = "no" \/ b.db.found = "no") =>
              /\ (a.out.psql.err = NoErr) # (b.out.psql.err = NoErr)
              /\ a.out.psql.err # NoErr => Is(a.out.psql.err, UMStorageErrAlreadyExists)
              /\ IsDone(a) =>
                    a.out.http.status =
                       IF a.out.psql.err = NoErr THEN StatusCreated ELSE StatusConflict
              /\ Len(RowsById(table, Usr(a).Id)) = 1

C16_Witness ==
    \E v, w \in Workers :
       /\ SideBySide(v, w)
       /\ req[v].op = "Insert" /\ req[w].op = "Insert"
       /\ Usr(req[v]).Id = Usr(req[w]).Id /\ Usr(req[v]) # Usr(req[w])
       /\ IsDone(req[v]) /\ IsDone(req[w])
       /\ req[v].out.http.status = StatusCreated
       /\ req[w].out.http.status = StatusConflict
       /\ RowsById(table, Usr(req[v]).Id) = <<Usr(req[v])>>

\* C17: of two Deletes of one stored identifier that run side by side (their
\* statements not failing), at most one returns success and the other
\* returns NotFound.
C17_OneDeleteWins ==
    \A v, w \in Workers :
       LET a == req[v]
           b == req[w]
       IN  (/\ SideBySide(v, w)
            /\ a.op = "Delete" /\ b.op = "Delete" /\ Uid(a) = Uid(b)
            /\ a.db.err \in {NoErr, SqlErrNoRows} /\ b.db.err \in {NoErr, SqlErrNoRows}
            /\ a.db.found = "yes" \/ b.db.found = "yes") =>
              /\ ~(a.out.psql.err = NoErr /\ b.out.psql.err = NoErr)
              /\ a.out.psql.err = NoErr => Is(b.out.psql.err, UMStorageErrNotFound)

\* C18: the error the gateway storage returns for a failed client call wraps
\* the storage sentinel of the kind of the status code (NotFound,
\* AlreadyExists, InvalidArgument, Canceled as ErrContextCanceled,
\* DeadlineExceeded as ErrDeadlineExeeced) and no other sentinel; for every
\* other code, and for an error that is no status, it wraps ErrInternal only.
C18_KindSurvivesGrpc ==
    \A r \in Requests :
       (r.out.rpc.ret /\ r.out.rpc.code # "OK" /\ r.out.gwstor.ret) =>
          LET code == r.out.rpc.code
              sentinel ==
                 CASE code = "NotFound"         -> GWStorageErrNotFound
                   [] code = "AlreadyExists"    -> GWStorageErrAlreadyExists
                   [] code = "InvalidArgument"  -> GWStorageErrInvalidArgument
                   [] code = "Canceled"         -> GWStorageErrContextCanceled
                   [] code = "DeadlineExceeded" -> GWStorageErrDeadlineExeeced
                   [] OTHER                     -> GWStorageErrInternal
          IN  \A e \in GWStorageErrors \ {ContextCanceled, OtherError} :
                 Is(r.out.gwstor.err, e) <=> e = sentinel

C18_Witness ==
    \E r \in Requests :
       /\ r.out.rpc.ret /\ r.out.rpc.code = NotAStatus
       /\ Is(r.out.gwstor.err, GWStorageErrInternal)
       /\ IsDone(r)

\* C19 as stated: in every method of the gateway service each of the five
\* storage sentinels maps to the service sentinel of the same name; any other
\* storage error becomes ErrInternal, except in GetUsers, which returns it
\* wrapped and does not wrap ErrInternal.
C19_Original ==
    \A r \in Requests :
       (Fails(r.out.gwstor) /\ r.out.gwsvc.ret) =>
          LET from == r.out.gwstor.err
              to   == r.out.gwsvc.err
              five == \/ Is(from, GWStorageErrContextCanceled)
                      \/ Is(from, GWStorageErrDeadlineExeeced)
                      \/ Is(from, GWStorageErrInvalidArgument)
                      \/ Is(from, GWStorageErrNotFound)
                      \/ Is(from, GWStorageErrAlreadyExists)
          IN  /\ Is(from, GWStorageErrContextCanceled) => Is(to, GWServiceErrContextCanceled)
              /\ Is(from, GWStorageErrDeadlineExeeced) => Is(to, GWServiceErrDeadlineExeeced)
              /\ Is(from, GWStorageErrInvalidArgument) => Is(to, GWServiceErrInvalidArgument)
              /\ Is(from, GWStorageErrNotFound) => Is(to, GWServiceErrNotFound)
              /\ Is(from, GWStorageErrAlreadyExists) => Is(to, GWServiceErrAlreadyExists)
              /\ (~five /\ r.op # "GetUsers") => Is(to, GWServiceErrInternal)
              /\ (~five /\ r.op = "GetUsers") =>
                    Is(to, from) /\ ~Is(to, GWServiceErrInternal)

\* C19: the gateway service maps storage ErrContextCanceled and
\* ErrDeadlineExeeced to the service sentinel of the same name in all five
\* methods, ErrInvalidArgument in all but GetUsers, ErrNotFound in
\* GetUserById, Update and Delete, and ErrAlreadyExists in Insert; every
\* other storage error, a sentinel the method does not map included, becomes
\* ErrInternal in GetUserById, Insert, Update and Delete, and in GetUsers is
\* returned wrapped, without ErrInternal.
C19_ServiceMapping ==
    \A r \in Requests :
       (Fails(r.out.gwstor) /\ r.out.gwsvc.ret) =>
          LET from == r.out.gwstor.err
              to   == r.out.gwsvc.err
              cancelled == Is(from, GWStorageErrContextCanceled)
              deadline  == Is(from, GWStorageErrDeadlineExeeced)
              invalid   == r.op # "GetUsers" /\ Is(from, GWStorageErrInvalidArgument)
              notfound  == HasId(r.op) /\ Is(from, GWStorageErrNotFound)
              exists    == r.op = "Insert" /\ Is(from, GWStorageErrAlreadyExists)
              mapped    == cancelled \/ deadline \/ invalid \/ notfound \/ exists
          IN  /\ cancelled => Is(to, GWServiceErrContextCanceled)
              /\ deadline => Is(to, GWServiceErrDeadlineExeeced)
              /\ invalid => Is(to, GWServiceErrInvalidArgument)
              /\ notfound => Is(to, GWServiceErrNotFound)
              /\ exists => Is(to, GWServiceErrAlreadyExists)
              /\ (~mapped /\ r.op # "GetUsers") => Is(to, GWServiceErrInternal)
              /\ (~mapped /\ r.op = "GetUsers") =>
                    Is(to, from) /\ ~Is(to, GWServiceErrInternal)

C19_Witness ==
    \E r \in Requests :
       /\ r.op = "GetUserById" /\ IsDone(r)
       /\ r.calls.gwstor = 1 /\ r.calls.rpc = 0
       /\ Is(r.out.gwstor.err, GWStorageErrAlreadyExists)
       /\ Is(r.out.gwsvc.err, GWServiceErrInternal)

\* C20: an HTTP request whose context is cancelled after the entry check of
\* its handler has passed and before the entry check of the gateway service
\* or of the gateway gRPC storage is answered 408 Request Timeout.
C20_CancelledMidwayTimesOut ==
    \A r \in Requests :
       (/\ r.entry = "http" /\ IsDone(r)
        /\ r.seen.handler = "live"
        /\ r.seen.gwsvc = "done" \/ r.seen.gwstor = "done") =>
          r.out.http.status = StatusRequestTimeout

C22_UpdateThenGet ==
    \A r \in Requests :
       (r.op = "Update" /\ r.out.psql.ret /\ r.out.psql.err = NoErr) =>
          PsqlGetUserById(QueryRowById(table, Uid(r))) = Ret(NoErr, r.out.psql.val)

\* C23: a step changes the users table only when it is the statement of an
\* Insert, an Update or a Delete that the psql storage then returns without
\* error: GetUsers, GetUserById and every operation whose storage call
\* returns an error (NotFound, AlreadyExists, a cancelled context, an error of
\* the database) leave every row as it was.
C23_OnlySuccessfulWrites ==
    [][table' # table =>
         \E w \in Workers :
            /\ req'[w].op \in {"Insert", "Update", "Delete"}
            /\ ~req[w].out.psql.ret /\ req'[w].out.psql.ret
            /\ req'[w].out.psql.err = NoErr]_vars

C23_Witness ==
    \E r \in Requests :
       /\ r.op = "Update" /\ r.calls.db = 1
       /\ r.out.psql.ret /\ Is(r.out.psql.err, SqlErrConnDone)
       /\ Len(RowsById(table, Uid(r))) = 1
       /\ Head(RowsById(table, Uid(r))).Login # Usr(r).Login

\* C24: the user a psql Delete holds after its read is the row then stored
\* under uid, and a Delete that returns without error returns that user; at
\* its return GetUserById(uid) would report ErrNotFound, and a row under an
\* identifier that had none appears only by the statement of an Insert of
\* that identifier that returns without error.
C24_DeleteThenNotFound ==
    [][/\ \A w \in Workers :
             /\ (req[w].pc = "db" /\ req'[w].pc = "dbdel") =>
                   /\ Len(RowsById(table, Uid(req[w]))) > 0
                   /\ req'[w].held = Head(RowsById(table, Uid(req[w])))
             /\ (/\ req[w].pc = "dbdel" /\ req'[w].out.psql.ret
                 /\ req'[w].out.psql.err = NoErr) =>
                   /\ req'[w].out.psql.val = req[w].held
                   /\ Is(PsqlGetUserById(QueryRowById(table', Uid(req[w]))).err,
                         UMStorageErrNotFound)
       /\ \A uid \in UUIDs :
             (Len(RowsById(table, uid)) = 0 /\ Len(RowsById(table', uid)) > 0) =>
                \E w \in Workers :
                   /\ req'[w].op = "Insert" /\ Usr(req'[w]).Id = uid
                   /\ ~req[w].out.psql.ret /\ req'[w].out.psql.ret
                   /\ req'[w].out.psql.err = NoErr]_vars

C24_Witness ==
    \E v, w \in Workers :
       /\ v # w
       /\ req[v].op = "Delete" /\ IsDone(req[v])
       /\ req[v].out.psql.err = NoErr /\ req[v].out.psql.val.Id = Uid(req[v])
       /\ req[w].op = "GetUserById" /\ Uid(req[w]) = Uid(req[v])
       /\ req[w].db.ran > req[v].db.ran
       /\ Is(req[w].out.psql.err, UMStorageErrNotFound)

\* C25: when Insert(u) returns without error, GetUserById(u.Id) would return
\* u, equal in all four fields, and GetUsers a list holding u exactly once;
\* and this stays so through every step that is not the statement of an
\* Update or a Delete of u.Id.
C25_InsertThenGet ==
    [][/\ \A w \in Workers :
             (/\ req'[w].op = "Insert"
              /\ ~req[w].out.psql.ret /\ req'[w].out.psql.ret
              /\ req'[w].out.psql.err = NoErr) =>
                LET u == req'[w].out.psql.val
                IN  /\ u = Usr(req'[w])
                    /\ PsqlGetUserById(QueryRowById(table', u.Id)) = Ret(NoErr, u)
                    /\ Len(SelectSeq(PsqlGetUsers(QuerySelectAll(table')).val,
                                     LAMBDA row : row = u)) = 1
       /\ \A u \in UserPool :
             (/\ PsqlGetUserById(QueryRowById(table, u.Id)) = Ret(NoErr, u)
              /\ Len(SelectSeq(table, LAMBDA row : row = u)) = 1
              /\ ~\E w \in Workers :
                    /\ req[w].pc \in {"db", "dbdel"}
                    /\ req[w].op \in {"Update", "Delete"} /\ Uid(req[w]) = u.Id
                    /\ req'[w] # req[w]) =>
                /\ PsqlGetUserById(QueryRowById(table', u.Id)) = Ret(NoErr, u)
                /\ Len(SelectSeq(PsqlGetUsers(QuerySelectAll(table')).val,
                                 LAMBDA row : row = u)) = 1]_vars

C25_Witness ==
    \E v, w \in Workers :
       /\ v # w
       /\ req[v].op = "Insert" /\ IsDone(req[v]) /\ req[v].out.psql.err = NoErr
       /\ req[w].op = "GetUserById" /\ Uid(req[w]) = Usr(req[v]).Id
       /\ req[w].db.ran > req[v].db.ran
       /\ req[w].out.psql.ret /\ req[w].out.psql.err = NoErr
       /\ req[w].out.psql.val = req[v].out.psql.val

\* C26: the first statement of a psql Delete is the read of the row, which
\* changes no row, and the DELETE is issued only when that read returned a
\* row; when the read fails with an error other than no-row, Delete returns
\* at once an error wrapping that error and not ErrNotFound, having issued
\* no DELETE.
C26_DeleteReadsFirst ==
    [][\A w \in Workers :
          (req[w].op = "Delete" /\ req[w].pc = "db" /\ req'[w].pc # "db") =>
             LET r == req'[w]
                 readerr == IF req[w].sctx THEN ContextCanceled ELSE r.db.err
             IN  /\ table' = table
                 /\ r.pc = "dbdel" <=> readerr = NoErr
                 /\ r.pc = "dbdel" => r.held = Head(RowsById(table, Uid(r)))
                 /\ readerr # NoErr =>
                       /\ r.out.psql.ret /\ r.calls.db <= 1 /\ r.db.affected = -1
                       /\ Is(readerr, SqlErrNoRows) <=>
                             Is(r.out.psql.err, UMStorageErrNotFound)
                       /\ ~Is(readerr, SqlErrNoRows) => Is(r.out.psql.err, readerr)]_vars

C26_Witness ==
    \E r \in Requests :
       /\ r.op = "Delete" /\ r.out.psql.ret /\ r.calls.db = 1
       /\ r.db.err = SqlErrConnDone
       /\ Is(r.out.psql.err, SqlErrConnDone)
       /\ Len(RowsById(table, Uid(r))) = 1

\* C27: no psql storage method is entered in the UsersManager process once
\* the database handle has been closed.
C27_StopBeforeClose ==
    [][\A w \in Workers :
          (req[w].pc = "psql" /\ req'[w].pc # "psql") => ~DBClosed]_vars

====
